---- MODULE Spec2Model ----
(***************************************************************************)
(* Model of internal/asciitimer/ascii_timer.go: RunTimer, its input        *)
(* watcher goroutine, the ticker and the terminal mode calls.              *)
(*                                                                         *)
(* Time is the monotonic clock in discrete units; Resolution units make    *)
(* one second.  The two goroutines share isPaused, pauseStart and          *)
(* pausedDuration without synchronisation, so every load and store of      *)
(* them is a step of its own and the steps interleave freely.              *)
(* restoreTerminal's ioctl may fail (the terminal has hung up); both       *)
(* callers discard the error and the settings stay as they are.            *)
(***************************************************************************)
EXTENDS Integers, Sequences, FiniteSets, TLC

\* ---------------------------------------------------------------- bounds
MaxTime == 3
MaxToggles == 4
Resolution == 1

\* ------------------------------------------------------ program constants
TickPeriod == 1 * Resolution
ZeroTime == 0
BytePUpper == 80
BytePLower == 112
ByteQLower == 113
ByteETX == 3

\* The bytes a read may deliver: the keys the code tests for, 'Q' (81) and a
\* key with no meaning, 'x' (120).
Bytes == {ByteETX, BytePUpper, BytePLower, ByteQLower} \cup {81, 120}

\* line 219: the bytes the quit test accepts, 3 and 'q'
QuitBytes == {ByteETX, ByteQLower}

NilState == [lflag |-> {"nil"}, vmin |-> 0, vtime |-> 0]

\* The terminal settings the program is started under (a cooked terminal).
InitialTermios == [lflag |-> {"ICANON", "ECHO", "ISIG"}, vmin |-> 4, vtime |-> 2]

VARIABLES
    now,            \* the clock
    tty,            \* the live terminal settings of fd
    ttyInit,        \* the terminal settings when RunTimer was called
    oldTermios,     \* makeRaw's oldTermios (NilState: not yet read)
    oldState,       \* RunTimer's oldState (NilState: nil / not yet set)
    defers,         \* RunTimer's deferred calls, last registered last
    sigChan,        \* TRUE when a signal is buffered in sigChan
    notified,       \* signal.Notify has registered sigChan
    isPaused, startTime, pausedDuration, pauseStart,
    tickerStart,    \* creation time of the ticker (ZeroTime: none)
    tickC,          \* TRUE when a tick is buffered in ticker.C
    mpc,            \* position of the main goroutine
    wpc,            \* position of the watcher goroutine
    buf,            \* buf[0]
    readErr,        \* the last os.Stdin.Read returned 0 bytes and an error
    since,          \* the watcher's time.Since(pauseStart) before the +=
    sinceStart,     \* the tick's time.Since(startTime), before the subtraction
    elapsed,        \* the tick's local elapsed
    screen,         \* what the display shows
    cursorHidden,
    status,         \* "running", "returned" (RunTimer returned), "exited"
                    \* (os.Exit), "crashed" (panic), "killed" (by a signal)
    frames,         \* number of frames rendered
    toggles,        \* timestamps sampled by the toggles, in order
    restoredByDefer, restoredByWatcher,
    restoreErr,     \* a restoreTerminal call has returned an error
    errorPrinted,
    dur,            \* an elapsed Duration: whole seconds and nanoseconds
    hms,            \* the tick's hours, minutes, seconds (lines 240-242)
    timeStr,        \* getASCIITime's timeStr, a sequence of characters
    out,            \* getASCIITime's result, a sequence of characters
    rpc             \* position in the rendering of one frame ("idle": none)

progVars == <<now, tty, ttyInit, oldTermios, oldState, defers, sigChan, notified, isPaused,
          startTime, pausedDuration, pauseStart, tickerStart, tickC, mpc, wpc,
          buf, readErr, since, sinceStart, elapsed, screen, cursorHidden,
          status, frames,
          toggles, restoredByDefer, restoredByWatcher, restoreErr,
          errorPrinted>>

renderVars == <<dur, hms, timeStr, out, rpc>>

vars == <<progVars, renderVars>>

termVars == <<tty, ttyInit, oldTermios, oldState>>
timerVars == <<isPaused, startTime, pausedDuration, pauseStart>>
mainVars == <<mpc, sinceStart, elapsed, defers, frames, errorPrinted>>
watcherVars == <<wpc, buf, readErr, since, toggles>>
chanVars == <<sigChan, notified, tickerStart, tickC>>
dispVars == <<screen, cursorHidden>>
ghostVars == <<restoredByDefer, restoredByWatcher, restoreErr>>

\* ------------------------------------------------------------- helpers

\* makeRaw's new settings: Lflag &^= ICANON|ECHO, Cc[VMIN] = 1, Cc[VTIME] = 0
RawOf(t) == [lflag |-> t.lflag \ {"ICANON", "ECHO"}, vmin |-> 1, vtime |-> 0]

\* restoreTerminal, lines 177-188: TCSETS with the saved settings; when the
\* ioctl fails (errno # 0) the settings stay as they are
restoreTerminal(cur, saved, ok) == IF ok THEN saved ELSE cur

\* time.Time.IsZero
IsZero(t) == t = ZeroTime

\* Sum of (resume - pause) over the complete pause intervals of a toggle log.
RECURSIVE SumPairs(_)
SumPairs(s) ==
    IF Len(s) < 2 THEN 0
    ELSE (s[2] - s[1]) + SumPairs(SubSeq(s, 3, Len(s)))

Running == status = "running"

\* ----------------------------------------------------------------- Init
\* The state when RunTimer is called.
ProgInit ==
    /\ now = 1
    /\ ttyInit = InitialTermios
    /\ tty = ttyInit
    /\ oldTermios = NilState
    /\ oldState = NilState
    /\ defers = <<>>
    /\ sigChan = FALSE
    /\ notified = FALSE
    /\ isPaused = FALSE
    /\ startTime = ZeroTime
    /\ pausedDuration = 0
    /\ pauseStart = ZeroTime
    /\ tickerStart = ZeroTime
    /\ tickC = FALSE
    /\ mpc = "makeRaw"
    /\ wpc = "none"
    /\ buf = 0
    /\ readErr = FALSE
    /\ since = 0
    /\ sinceStart = 0
    /\ elapsed = 0
    /\ screen = "shell"
    /\ cursorHidden = FALSE
    /\ status = "running"
    /\ frames = 0
    /\ toggles = <<>>
    /\ restoredByDefer = FALSE
    /\ restoredByWatcher = FALSE
    /\ restoreErr = FALSE
    /\ errorPrinted = FALSE

\* No frame is being rendered.
NoDur == [sec |-> 0 - 1, nsec |-> 0]

RenderIdle ==
    /\ dur = NoDur
    /\ hms = <<0, 0, 0>>
    /\ timeStr = <<>>
    /\ out = <<>>
    /\ rpc = "idle"

Init == ProgInit /\ RenderIdle

\* ---------------------------------------------------------- environment

\* The clock advances; the ticker sends on ticker.C (capacity 1) each period.
ClockAdvance ==
    /\ Running
    /\ now < MaxTime
    /\ now' = now + 1
    /\ tickC' = IF tickerStart # ZeroTime /\ (now' - tickerStart) % TickPeriod = 0
                THEN TRUE ELSE tickC
    /\ UNCHANGED <<termVars, timerVars, mainVars, watcherVars, dispVars,
                   ghostVars, sigChan, notified, tickerStart, status>>
    /\ UNCHANGED renderVars

\* SIGINT or SIGTERM arrives before signal.Notify (line 200): the runtime's
\* default action ends the process at once; no deferred call runs.
SignalKills ==
    /\ Running
    /\ ~notified
    /\ status' = "killed"
    /\ UNCHANGED <<now, termVars, timerVars, mainVars, watcherVars, chanVars,
                   dispVars, ghostVars>>
    /\ UNCHANGED renderVars

\* SIGINT or SIGTERM arrives after signal.Notify: it is delivered to sigChan
\* (capacity 1).
SignalDelivered ==
    /\ Running
    /\ notified
    /\ ~sigChan
    /\ sigChan' = TRUE
    /\ UNCHANGED <<now, termVars, timerVars, mainVars, watcherVars, dispVars,
                   ghostVars, notified, tickerStart, tickC, status>>
    /\ UNCHANGED renderVars

\* ------------------------------------------------------- main goroutine

\* makeRaw, lines 147-158: TCGETS succeeds, oldTermios := *termios
MainMakeRawGet ==
    /\ Running /\ mpc = "makeRaw"
    /\ oldTermios' = tty
    /\ mpc' = "setRaw"
    /\ UNCHANGED <<now, tty, ttyInit, oldState, timerVars, watcherVars,
                   chanVars, dispVars, ghostVars, sinceStart, elapsed, defers,
                   frames, errorPrinted, status>>
    /\ UNCHANGED renderVars

\* makeRaw, lines 160-168: TCSETS with the raw settings succeeds
MainMakeRawSet ==
    /\ Running /\ mpc = "setRaw"
    /\ tty' = RawOf(tty)
    /\ mpc' = "rawSet"
    /\ UNCHANGED <<now, ttyInit, oldTermios, oldState, timerVars, watcherVars,
                   chanVars, dispVars, ghostVars, sinceStart, elapsed, defers,
                   frames, errorPrinted, status>>
    /\ UNCHANGED renderVars

\* line 174 and line 192: makeRaw returns &oldTermios, stored in oldState
MainMakeRawOk ==
    /\ Running /\ mpc = "rawSet"
    /\ oldState' = oldTermios
    /\ mpc' = "defer"
    /\ UNCHANGED <<now, tty, ttyInit, oldTermios, timerVars, watcherVars,
                   chanVars, dispVars, ghostVars, sinceStart, elapsed, defers,
                   frames, errorPrinted, status>>
    /\ UNCHANGED renderVars

\* The failure of makeRaw reported without the return of line 195.
MainMakeRawFailNoReturn ==
    /\ Running /\ mpc \in {"makeRaw", "setRaw"}
    /\ errorPrinted' = TRUE
    /\ mpc' = "defer"
    /\ UNCHANGED <<now, termVars, timerVars, watcherVars, chanVars, dispVars,
                   ghostVars, sinceStart, elapsed, defers, frames, status>>
    /\ UNCHANGED renderVars

\* lines 154-156 or 170-172, then 193-195: TCGETS or TCSETS fails, makeRaw
\* returns the error, RunTimer prints it and returns
MainMakeRawFail ==
    /\ Running /\ mpc \in {"makeRaw", "setRaw"}
    /\ errorPrinted' = TRUE
    /\ mpc' = "return"
    /\ UNCHANGED <<now, termVars, timerVars, watcherVars, chanVars, dispVars,
                   ghostVars, sinceStart, elapsed, defers, frames, status>>
    /\ UNCHANGED renderVars

\* line 197: defer restoreTerminal(fd, oldState)
MainDeferRestore ==
    /\ Running /\ mpc = "defer"
    /\ defers' = Append(defers, "restoreTerminal")
    /\ mpc' = "init"
    /\ UNCHANGED <<now, termVars, timerVars, watcherVars, chanVars, dispVars,
                   ghostVars, sinceStart, elapsed, frames, errorPrinted,
                   status>>
    /\ UNCHANGED renderVars

\* lines 199-205: sigChan, Notify, the timer state
MainInit ==
    /\ Running /\ mpc = "init"
    /\ notified' = TRUE
    /\ isPaused' = FALSE
    /\ startTime' = now
    /\ pausedDuration' = 0
    /\ pauseStart' = ZeroTime
    /\ mpc' = "go"
    /\ UNCHANGED <<now, termVars, watcherVars, dispVars, ghostVars, sigChan,
                   tickerStart, tickC, sinceStart, elapsed, defers, frames,
                   errorPrinted, status>>
    /\ UNCHANGED renderVars

\* line 207: go func() {...}(); line 208: buf := make([]byte, 1)
MainGo ==
    /\ Running /\ mpc = "go"
    /\ wpc' = "read"
    /\ buf' = 0
    /\ mpc' = "clear"
    /\ UNCHANGED <<now, termVars, timerVars, chanVars, dispVars, ghostVars,
                   readErr, since, toggles, sinceStart, elapsed, defers, frames,
                   errorPrinted, status>>
    /\ UNCHANGED renderVars

\* line 226
MainClear ==
    /\ Running /\ mpc = "clear"
    /\ screen' = "clear"
    /\ mpc' = "hide"
    /\ UNCHANGED <<now, termVars, timerVars, watcherVars, chanVars, ghostVars,
                   cursorHidden, sinceStart, elapsed, defers, frames, errorPrinted, status>>
    /\ UNCHANGED renderVars

\* line 227: hide the cursor
MainHideCursor ==
    /\ Running /\ mpc = "hide"
    /\ cursorHidden' = TRUE
    /\ mpc' = "deferShow"
    /\ UNCHANGED <<now, termVars, timerVars, watcherVars, chanVars, ghostVars,
                   screen, sinceStart, elapsed, defers, frames, errorPrinted,
                   status>>
    /\ UNCHANGED renderVars

\* line 228: defer showing the cursor
MainDeferShow ==
    /\ Running /\ mpc = "deferShow"
    /\ defers' = Append(defers, "showCursor")
    /\ mpc' = "ticker"
    /\ UNCHANGED <<now, termVars, timerVars, watcherVars, chanVars, dispVars,
                   ghostVars, sinceStart, elapsed, frames, errorPrinted,
                   status>>
    /\ UNCHANGED renderVars

\* line 230
MainNewTicker ==
    /\ Running /\ mpc = "ticker"
    /\ tickerStart' = now
    /\ tickC' = FALSE
    /\ mpc' = "select"
    /\ UNCHANGED <<now, termVars, timerVars, watcherVars, dispVars, ghostVars,
                   sigChan, notified, sinceStart, elapsed, defers, frames, errorPrinted,
                   status>>
    /\ UNCHANGED renderVars

\* lines 234-235: case <-sigChan: clearScreen()
MainSignal ==
    /\ Running /\ mpc = "select"
    /\ sigChan
    /\ sigChan' = FALSE
    /\ screen' = "clear"
    /\ mpc' = "return"
    /\ UNCHANGED <<now, termVars, timerVars, watcherVars, ghostVars, notified,
                   tickerStart, tickC, cursorHidden, sinceStart, elapsed, defers, frames,
                   errorPrinted, status>>
    /\ UNCHANGED renderVars

\* line 236 (and line 195): return runs the deferred calls, last one first;
\* a panic of the main goroutine runs them too and then ends the process
MainReturn ==
    /\ Running /\ mpc \in {"return", "panic"}
    /\ IF defers = <<>>
       THEN /\ status' = IF mpc = "panic" THEN "crashed" ELSE "returned"
            /\ UNCHANGED <<tty, cursorHidden, defers, restoredByDefer,
                           restoreErr>>
       ELSE /\ defers' = SubSeq(defers, 1, Len(defers) - 1)
            /\ IF defers[Len(defers)] = "showCursor"
               THEN /\ cursorHidden' = FALSE
                    /\ UNCHANGED <<tty, restoredByDefer, restoreErr>>
               ELSE /\ \E ok \in BOOLEAN :
                          /\ tty' = restoreTerminal(tty, oldState, ok)
                          /\ restoreErr' = (restoreErr \/ ~ok)
                    /\ restoredByDefer' = TRUE
                    /\ UNCHANGED cursorHidden
            /\ UNCHANGED status
    /\ UNCHANGED <<now, ttyInit, oldTermios, oldState, timerVars, watcherVars, chanVars,
                   screen, restoredByWatcher, mpc, sinceStart, elapsed, frames,
                   errorPrinted>>
    /\ UNCHANGED renderVars

\* line 237: case <-ticker.C: the select receives the buffered tick
MainTick ==
    /\ Running /\ mpc = "select"
    /\ tickC
    /\ tickC' = FALSE
    /\ mpc' = "tick"
    /\ UNCHANGED <<now, termVars, timerVars, watcherVars, ghostVars, sigChan,
                   notified, tickerStart, dispVars, sinceStart, elapsed,
                   defers, frames, errorPrinted, status>>
    /\ UNCHANGED renderVars

\* line 238: clearScreen()
MainTickClear ==
    /\ Running /\ mpc = "tick"
    /\ screen' = "clear"
    /\ mpc' = "since"
    /\ UNCHANGED <<now, termVars, timerVars, watcherVars, ghostVars, chanVars,
                   cursorHidden, sinceStart, elapsed, defers, frames,
                   errorPrinted, status>>
    /\ UNCHANGED renderVars

\* line 239, left operand: time.Since(startTime) is called first
MainSince ==
    /\ Running /\ mpc = "since"
    /\ sinceStart' = now - startTime
    /\ mpc' = "elapsed"
    /\ UNCHANGED <<now, termVars, timerVars, watcherVars, chanVars, dispVars,
                   ghostVars, elapsed, defers, frames, errorPrinted, status>>
    /\ UNCHANGED renderVars

\* line 239: elapsed := time.Since(startTime) - pausedDuration
Elapsed(t, start, paused) == (t - start) - paused

\* line 239, right operand and subtraction: pausedDuration is loaded after
\* the call has returned
MainElapsed ==
    /\ Running /\ mpc = "elapsed"
    /\ elapsed' = Elapsed(startTime + sinceStart, startTime, pausedDuration)
    /\ sinceStart' = 0
    /\ mpc' = "render"
    /\ UNCHANGED <<now, termVars, timerVars, watcherVars, chanVars, dispVars,
                   ghostVars, defers, frames, errorPrinted, status>>
    /\ UNCHANGED renderVars

\* lines 240-245 with 126-137: an elapsed time of minus one second or less
\* gives a negative field, "%02d" prints its sign, and digits[int('-' - '0')]
\* is out of range: getASCIITime panics.
Panics(e) == e <= 0 - Resolution

\* lines 240-245: the frame is printed, or getASCIITime panics
MainRender ==
    /\ Running /\ mpc = "render"
    /\ IF Panics(elapsed)
       THEN /\ mpc' = "panic"
            /\ UNCHANGED <<screen, frames>>
       ELSE /\ screen' = "time"
            /\ frames' = frames + 1
            /\ mpc' = "banner"
    /\ UNCHANGED <<now, termVars, timerVars, watcherVars, chanVars, ghostVars,
                   cursorHidden, sinceStart, elapsed, defers, errorPrinted,
                   status>>
    /\ UNCHANGED renderVars

\* A banner step that also charges the pause in progress to pausedDuration.
MainBannerAccumulates ==
    /\ Running /\ mpc = "banner"
    /\ screen' = IF isPaused THEN "paused" ELSE screen
    /\ pausedDuration' = IF isPaused THEN now - pauseStart ELSE pausedDuration
    /\ mpc' = "select"
    /\ UNCHANGED <<now, termVars, isPaused, startTime, pauseStart, watcherVars,
                   chanVars, ghostVars, cursorHidden, sinceStart, elapsed,
                   defers, frames, errorPrinted, status>>
    /\ UNCHANGED renderVars

\* lines 247-250: if isPaused, the banner is printed over the frame
MainBanner ==
    /\ Running /\ mpc = "banner"
    /\ screen' = IF isPaused THEN "paused" ELSE screen
    /\ mpc' = "select"
    /\ UNCHANGED <<now, termVars, timerVars, watcherVars, chanVars, ghostVars,
                   cursorHidden, sinceStart, elapsed, defers, frames, errorPrinted, status>>
    /\ UNCHANGED renderVars

\* ---------------------------------------------------- watcher goroutine

\* line 211: the test for the pause key
IsPauseKey(b) == b = BytePLower \/ b = BytePUpper

\* line 210: os.Stdin.Read(buf) returns one byte
WatcherRead ==
    /\ Running /\ wpc = "read"
    /\ \E b \in Bytes :
          /\ IsPauseKey(b) => Len(toggles) < MaxToggles
          /\ buf' = b
    /\ readErr' = FALSE
    /\ wpc' = "toggle"
    /\ UNCHANGED <<now, termVars, timerVars, mainVars, chanVars, dispVars,
                   ghostVars, since, toggles, status>>
    /\ UNCHANGED renderVars

\* line 210: os.Stdin.Read(buf) returns (0, err); the result is discarded
WatcherReadFail ==
    /\ Running /\ wpc = "read"
    /\ IsPauseKey(buf) => Len(toggles) < MaxToggles
    /\ readErr' = TRUE
    /\ wpc' = "toggle"
    /\ UNCHANGED <<now, termVars, timerVars, mainVars, chanVars, dispVars,
                   ghostVars, buf, since, toggles, status>>
    /\ UNCHANGED renderVars

\* lines 211-212
WatcherToggle ==
    /\ Running /\ wpc = "toggle"
    /\ IF IsPauseKey(buf)
       THEN /\ isPaused' = ~isPaused
            /\ wpc' = "branch"
       ELSE /\ wpc' = "quit"
            /\ UNCHANGED isPaused
    /\ UNCHANGED <<now, termVars, startTime, pausedDuration, pauseStart,
                   mainVars, chanVars, dispVars, ghostVars, buf, readErr,
                   since, toggles, status>>
    /\ UNCHANGED renderVars

\* lines 213-216: pauseStart = time.Now(), or time.Since(pauseStart) is taken
WatcherBranch ==
    /\ Running /\ wpc = "branch"
    /\ IF isPaused
       THEN /\ pauseStart' = now
            /\ toggles' = Append(toggles, now)
            /\ wpc' = "quit"
            /\ UNCHANGED since
       ELSE IF ~IsZero(pauseStart)
       THEN /\ since' = now - pauseStart
            /\ toggles' = Append(toggles, now)
            /\ wpc' = "add"
            /\ UNCHANGED pauseStart
       ELSE /\ wpc' = "quit"
            /\ UNCHANGED <<pauseStart, since, toggles>>
    /\ UNCHANGED <<now, termVars, isPaused, startTime, pausedDuration,
                   mainVars, chanVars, dispVars, ghostVars, buf, readErr,
                   status>>
    /\ UNCHANGED renderVars

\* Line 216 written with = in place of +=.
AccumulateOverwrites(paused, d) == d

\* line 216: pausedDuration += (the duration just taken)
Accumulate(paused, d) == paused + d

WatcherAdd ==
    /\ Running /\ wpc = "add"
    /\ pausedDuration' = Accumulate(pausedDuration, since)
    /\ since' = 0
    /\ wpc' = "quit"
    /\ UNCHANGED <<now, termVars, isPaused, startTime, pauseStart, mainVars,
                   chanVars, dispVars, ghostVars, buf, readErr, toggles,
                   status>>
    /\ UNCHANGED renderVars

\* The quit test with >= for the second comparison.
IsQuitKeyFrom(b) == b = ByteETX \/ b >= ByteQLower

\* line 219
IsQuitKey(b) == b = ByteETX \/ b = ByteQLower

WatcherQuitTest ==
    /\ Running /\ wpc = "quit"
    /\ wpc' = IF IsQuitKey(buf) THEN "restore" ELSE "read"
    /\ UNCHANGED <<now, termVars, timerVars, mainVars, chanVars, dispVars,
                   ghostVars, buf, readErr, since, toggles, status>>
    /\ UNCHANGED renderVars

\* line 220
WatcherRestore ==
    /\ Running /\ wpc = "restore"
    /\ \E ok \in BOOLEAN :
          /\ tty' = restoreTerminal(tty, oldState, ok)
          /\ restoreErr' = (restoreErr \/ ~ok)
    /\ restoredByWatcher' = TRUE
    /\ wpc' = "exit"
    /\ UNCHANGED <<now, ttyInit, oldTermios, oldState, timerVars, mainVars, chanVars,
                   dispVars, restoredByDefer, buf, readErr, since, toggles,
                   status>>
    /\ UNCHANGED renderVars

\* line 221: os.Exit(0); no deferred call runs
WatcherExit ==
    /\ Running /\ wpc = "exit"
    /\ status' = "exited"
    /\ UNCHANGED <<now, termVars, timerVars, mainVars, watcherVars, chanVars,
                   dispVars, ghostVars>>
    /\ UNCHANGED renderVars

\* ------------------------------------------------------- specification
MainStep ==
    \/ MainMakeRawGet \/ MainMakeRawSet \/ MainMakeRawOk \/ MainMakeRawFail
    \/ MainDeferRestore \/ MainInit \/ MainGo \/ MainClear
    \/ MainHideCursor \/ MainDeferShow \/ MainNewTicker \/ MainReturn \/ MainTick
    \/ MainTickClear \/ MainSince \/ MainElapsed \/ MainRender \/ MainBanner

WatcherStep ==
    \/ WatcherRead \/ WatcherReadFail \/ WatcherToggle \/ WatcherBranch
    \/ WatcherAdd \/ WatcherQuitTest \/ WatcherRestore \/ WatcherExit

Next ==
    \/ ClockAdvance
    \/ SignalKills
    \/ SignalDelivered
    \/ MainStep
    \/ MainSignal
    \/ WatcherStep

Spec == Init /\ [][Next]_vars

\* The Go scheduler runs a runnable goroutine eventually, and select picks
\* among its ready cases at random, so a ready case is not passed over for ever.
FairSpec == Spec /\ WF_vars(MainStep) /\ SF_vars(MainSignal)

TypeOK ==
    /\ now \in 1..MaxTime
    /\ status \in {"running", "returned", "exited", "crashed", "killed"}
    /\ isPaused \in BOOLEAN
    /\ pausedDuration \in 0..MaxTime
    /\ elapsed \in (0 - MaxTime)..MaxTime
    /\ buf \in Bytes \cup {0}

\* ------------------------------------------------- rendering of a frame
\* A Duration is kept as whole seconds and nanoseconds, [sec, nsec], so that
\* every quantity stays below 2^31.  "#" stands for the block character.

NanosPerSecond == 1000000000

RECURSIVE Pow2(_)
Pow2(n) == IF n = 0 THEN 1 ELSE 2 * Pow2(n - 1)

RECURSIVE Log2Floor(_)
Log2Floor(n) == IF n < 2 THEN 0 ELSE 1 + Log2Floor(n \div 2)

\* int(float64(whole) + float64(rest)/unit), the shape of Duration.Hours,
\* Minutes and Seconds under int(): rest < unit is k nanoseconds short of a
\* whole unit, and unit = odd * 2^two nanoseconds.  The float64 sum has 53
\* bits: it rounds up to whole + 1 when k/unit is at most half a unit in the
\* last place of whole, that is when k * 2^(53 - e - two) <= odd with
\* 2^e <= whole < 2^(e+1).  kSmall is k when k is below one second (else
\* the sum cannot round up for sec < 2^31).
IntOfFloatSum(whole, lastSecond, kSmall, odd, two) ==
    LET j == 53 - Log2Floor(whole) - two
        limit == IF j > 30 THEN 0 ELSE odd \div Pow2(j)
    IN  IF whole >= 1 /\ lastSecond /\ kSmall <= limit
        THEN whole + 1 ELSE whole

\* int(elapsed.Hours()), line 240: an hour is 2^13 * 439453125 ns
IntHours(d) ==
    IntOfFloatSum(d.sec \div 3600, d.sec % 3600 = 3599,
                  NanosPerSecond - d.nsec, 439453125, 13)

\* int(elapsed.Minutes()), line 241: a minute is 2^11 * 29296875 ns
IntMinutes(d) ==
    IntOfFloatSum(d.sec \div 60, d.sec % 60 = 59,
                  NanosPerSecond - d.nsec, 29296875, 11)

\* int(elapsed.Seconds()), line 242: a second is 2^9 * 1953125 ns
IntSeconds(d) ==
    IntOfFloatSum(d.sec, TRUE, NanosPerSecond - d.nsec, 1953125, 9)

\* lines 240-242
SplitHMS(d) == <<IntHours(d), IntMinutes(d) % 60, IntSeconds(d) % 60>>

DigitChars == <<"0", "1", "2", "3", "4", "5", "6", "7", "8", "9">>

\* The decimal digits of n >= 0, most significant first.
RECURSIVE Decimal(_)
Decimal(n) ==
    IF n < 10 THEN <<DigitChars[n + 1]>>
    ELSE Decimal(n \div 10) \o <<DigitChars[(n % 10) + 1]>>

\* "%02d" keeping the last two digits only.
Sprintf02dTruncating(n) ==
    <<DigitChars[((n \div 10) % 10) + 1], DigitChars[(n % 10) + 1]>>

\* fmt.Sprintf("%02d", n) for n >= 0: at least two digits, zero-padded
Sprintf02d(n) == IF n < 10 THEN <<"0">> \o Decimal(n) ELSE Decimal(n)

\* line 127: fmt.Sprintf("%02d:%02d:%02d", h, m, s)
FormatTime(h, m, s) ==
    Sprintf02d(h) \o <<":">> \o Sprintf02d(m) \o <<":">> \o Sprintf02d(s)

\* lines 24-95
digits ==
    << << <<"#", "#", "#", "#", "#">>,
          <<"#", " ", " ", " ", "#">>,
          <<"#", " ", " ", " ", "#">>,
          <<"#", " ", " ", " ", "#">>,
          <<"#", "#", "#", "#", "#">> >>,
       << <<" ", " ", "#", " ", " ">>,
          <<" ", "#", "#", " ", " ">>,
          <<" ", " ", "#", " ", " ">>,
          <<" ", " ", "#", " ", " ">>,
          <<"#", "#", "#", "#", "#">> >>,
       << <<"#", "#", "#", "#", "#">>,
          <<" ", " ", " ", " ", "#">>,
          <<"#", "#", "#", "#", "#">>,
          <<"#", " ", " ", " ", " ">>,
          <<"#", "#", "#", "#", "#">> >>,
       << <<"#", "#", "#", "#", "#">>,
          <<" ", " ", " ", " ", "#">>,
          <<"#", "#", "#", "#", "#">>,
          <<" ", " ", " ", " ", "#">>,
          <<"#", "#", "#", "#", "#">> >>,
       << <<"#", " ", " ", " ", "#">>,
          <<"#", " ", " ", " ", "#">>,
          <<"#", "#", "#", "#", "#">>,
          <<" ", " ", " ", " ", "#">>,
          <<" ", " ", " ", " ", "#">> >>,
       << <<"#", "#", "#", "#", "#">>,
          <<"#", " ", " ", " ", " ">>,
          <<"#", "#", "#", "#", "#">>,
          <<" ", " ", " ", " ", "#">>,
          <<"#", "#", "#", "#", "#">> >>,
       << <<"#", "#", "#", "#", "#">>,
          <<"#", " ", " ", " ", " ">>,
          <<"#", "#", "#", "#", "#">>,
          <<"#", " ", " ", " ", "#">>,
          <<"#", "#", "#", "#", "#">> >>,
       << <<"#", "#", "#", "#", "#">>,
          <<" ", " ", " ", " ", "#">>,
          <<" ", " ", " ", "#", " ">>,
          <<" ", " ", "#", " ", " ">>,
          <<" ", "#", " ", " ", " ">> >>,
       << <<"#", "#", "#", "#", "#">>,
          <<"#", " ", " ", " ", "#">>,
          <<"#", "#", "#", "#", "#">>,
          <<"#", " ", " ", " ", "#">>,
          <<"#", "#", "#", "#", "#">> >>,
       << <<"#", "#", "#", "#", "#">>,
          <<"#", " ", " ", " ", "#">>,
          <<"#", "#", "#", "#", "#">>,
          <<" ", " ", " ", " ", "#">>,
          <<"#", "#", "#", "#", "#">> >> >>

\* A colon glyph whose middle row is the empty string.
colonEmptyRow == << <<" ">>, <<"#">>, <<>>, <<"#">>, <<" ">> >>

\* lines 97-103
colon == << <<" ">>, <<"#">>, <<" ">>, <<"#">>, <<" ">> >>

\* line 136: int(char - '0')
DigitOf(ch) == CHOOSE i \in 0..9 : DigitChars[i + 1] = ch

\* lines 133-138: the glyph row of one character of timeStr
GlyphRow(ch, row) ==
    IF ch = ":" THEN colon[row] ELSE digits[DigitOf(ch) + 1][row]

\* A row built with the space in front of each glyph.
RECURSIVE LineOfSpaceFirst(_, _)
LineOfSpaceFirst(str, row) ==
    IF str = <<>> THEN <<>>
    ELSE <<" ">> \o GlyphRow(Head(str), row) \o LineOfSpaceFirst(Tail(str), row)

\* lines 131-139: line += glyph row + " ", for every character of timeStr
RECURSIVE LineOf(_, _)
LineOf(str, row) ==
    IF str = <<>> THEN <<>>
    ELSE GlyphRow(Head(str), row) \o <<" ">> \o LineOf(Tail(str), row)

\* line 143: strings.Join(result, "\n")
RECURSIVE Join(_)
Join(rows) ==
    IF Len(rows) = 0 THEN <<>>
    ELSE IF Len(rows) = 1 THEN rows[1]
    ELSE rows[1] \o <<"\n">> \o Join(Tail(rows))

\* lines 126-144
getASCIITime(h, m, s) ==
    LET str == FormatTime(h, m, s)
    IN  Join([row \in 1..5 |-> LineOf(str, row)])

\* The elapsed times and the triples a frame is rendered for.
SecInputs ==
    {0, 1, 59, 60, 61, 3599, 3600, 3661, 86399, 359999, 360000, 3599999,
     16777216, 16777259}
NsecInputs == {0, 1, 500000000, 999999999}
Durations == [sec : SecInputs, nsec : NsecInputs]
Triples == {0, 7, 99, 100, 1234} \X {0, 9, 10, 59} \X {0, 5, 48, 59}

\* A frame is rendered for an elapsed time, or getASCIITime is called with a
\* valid triple directly.
RenderInit ==
    /\ ProgInit
    /\ \/ dur \in Durations /\ hms = <<0, 0, 0>> /\ rpc = "split"
       \/ dur = NoDur /\ hms \in Triples /\ rpc = "format"
    /\ timeStr = <<>>
    /\ out = <<>>

\* lines 240-242
RenderSplit ==
    /\ rpc = "split"
    /\ hms' = SplitHMS(dur)
    /\ rpc' = "format"
    /\ UNCHANGED <<progVars, dur, timeStr, out>>

\* line 127
RenderFormat ==
    /\ rpc = "format"
    /\ timeStr' = FormatTime(hms[1], hms[2], hms[3])
    /\ rpc' = "glyphs"
    /\ UNCHANGED <<progVars, dur, hms, out>>

\* lines 129-143 and 245
RenderGlyphs ==
    /\ rpc = "glyphs"
    /\ out' = getASCIITime(hms[1], hms[2], hms[3])
    /\ rpc' = "done"
    /\ UNCHANGED <<progVars, dur, hms, timeStr>>

RenderNext == RenderSplit \/ RenderFormat \/ RenderGlyphs

RenderSpec == RenderInit /\ [][RenderNext]_vars

\* ------------------------------------------------------------ properties

\* The step of a tick that computes elapsed (line 239).
SampleStep == mpc = "elapsed" /\ mpc' = "render"

\* C1: while the timer is paused, every tick computes the elapsed time of the
\* instant the pause began (the pause in progress is excluded).
C1_PausedTickFrozen ==
    [][(SampleStep /\ isPaused /\ wpc # "branch"
        /\ pauseStart <= startTime + sinceStart)
        => elapsed' = Elapsed(pauseStart, startTime, pausedDuration)]_vars

\* Sum of the complete pause intervals of a toggle log that ended before
\* clock value t, or no later than t.
RECURSIVE SumEndedBefore(_, _)
SumEndedBefore(s, t) ==
    IF Len(s) < 2 THEN 0
    ELSE (IF s[2] < t THEN s[2] - s[1] ELSE 0)
         + SumEndedBefore(SubSeq(s, 3, Len(s)), t)

RECURSIVE SumEndedBy(_, _)
SumEndedBy(s, t) ==
    IF Len(s) < 2 THEN 0
    ELSE (IF s[2] <= t THEN s[2] - s[1] ELSE 0)
         + SumEndedBy(SubSeq(s, 3, Len(s)), t)

\* C2: a tick that finds the timer not paused computes now - startTime minus
\* the total length of the pause intervals that have ended when it samples
\* the clock, whatever the watcher's position in a toggle.  (An interval that
\* ended at the very clock value of the sample may or may not count.)
C2_RunningTickElapsed ==
    [][(SampleStep /\ ~isPaused)
        => /\ elapsed' >= sinceStart - SumEndedBy(toggles, startTime + sinceStart)
           /\ elapsed' <= sinceStart
                           - SumEndedBefore(toggles, startTime + sinceStart)]_vars

\* C3: once a toggle has been carried out, the accumulated paused duration is
\* the sum of (resume time - pause time) over the complete pause intervals; a
\* trailing pause adds nothing.
C3_PausedAccounting ==
    wpc # "add" => pausedDuration = SumPairs(toggles)

\* C3 witness: two complete pauses of positive length have been accumulated
\* and the timer runs again.
C3_Witness ==
    /\ wpc = "read" /\ ~isPaused
    /\ Len(toggles) = 4
    /\ toggles[2] > toggles[1]
    /\ toggles[4] > toggles[3]
    /\ pausedDuration = (toggles[2] - toggles[1]) + (toggles[4] - toggles[3])

\* The quit keys claimed: the bytes of the quit test and 'Q' (81).
ClaimedQuitBytes == QuitBytes \cup {81}

\* C4: after reading byte 3, 'q' or 'Q' the watcher does not go on to another
\* read: the process terminates.
C4_QuitKeysTerminate ==
    (Running /\ wpc = "read") => buf \notin ClaimedQuitBytes

\* Raw mode has been entered: makeRaw's second ioctl has succeeded.
RawEntered == ~errorPrinted /\ mpc \notin {"makeRaw", "setRaw"}

\* C5: when the process has terminated after raw mode was entered, the
\* terminal settings are those RunTimer was called under.
C5_TerminalRestoredAtExit ==
    (status # "running" /\ RawEntered) => tty = ttyInit

\* C6: the terminal mode is restored exactly once: the watcher's restoration
\* and the deferred one never both run, and a forced exit has run the watcher's.
C6_RestoredOnce ==
    /\ ~(restoredByDefer /\ restoredByWatcher)
    /\ status = "exited" => restoredByWatcher

\* C7: once the watcher has read a quit byte, no further frame is rendered.
C7_NoFrameAfterQuit ==
    [][(wpc \in {"toggle", "quit", "restore", "exit"} /\ ~readErr
        /\ buf \in ClaimedQuitBytes) => frames' = frames]_vars

\* C8: a delivered signal leads to the main loop clearing the display and
\* RunTimer returning with the deferred restoration done.
C8_SignalLeadsToReturn ==
    sigChan ~> (status = "returned" /\ screen = "clear" /\ restoredByDefer)

\* C9: the cursor is hidden throughout the loop and visible again whenever the
\* process has terminated.
C9_CursorBracketed ==
    /\ (Running /\ mpc \in {"select", "tick", "since", "elapsed", "render",
                            "banner"}) => cursorHidden
    /\ status # "running" => ~cursorHidden

\* C10: after a failed read the watcher stops: it reads no more, toggles
\* nothing and does not quit.
C10_ReadErrorStopsWatcher ==
    [][(readErr /\ wpc # "read")
        => /\ wpc' # "read"
           /\ isPaused' = isPaused
           /\ pauseStart' = pauseStart
           /\ pausedDuration' = pausedDuration
           /\ restoredByWatcher' = restoredByWatcher
           /\ (status' = "exited" => status = "exited")]_vars

\* C11: isPaused flips only when a 'p' or 'P' byte has just been read, and once
\* for it; after the bytes processed isPaused is true exactly when the number
\* of toggles is odd; a flip into pause records the current time as pauseStart.
C11_ToggleParity ==
    /\ [][isPaused' # isPaused
            => (wpc = "toggle" /\ ~readErr /\ IsPauseKey(buf))]_vars
    /\ [][(wpc = "toggle" /\ wpc' # wpc /\ IsPauseKey(buf))
            => isPaused' = ~isPaused]_vars
    /\ [][(wpc = "branch" /\ wpc' # wpc /\ isPaused) => pauseStart' = now]_vars
    /\ [](wpc \in {"read", "toggle"} => (isPaused <=> Len(toggles) % 2 = 1))

\* The bytes with a meaning in the specification: 'p', 'P', 'q', 'Q', byte 3.
KeyBytes == {BytePLower, BytePUpper, ByteQLower, ByteETX} \cup {81}

\* C12: reading and processing a byte that is no key changes neither isPaused,
\* pauseStart, pausedDuration, the terminal settings nor the process status,
\* and the watcher goes back to reading.
C12_OtherByteNoEffect ==
    [][(wpc' # wpc /\ wpc # "none" /\ ~readErr' /\ buf' \notin KeyBytes)
        => /\ UNCHANGED <<isPaused, pauseStart, pausedDuration, tty, status>>
           /\ wpc' \in {"toggle", "quit", "read"}]_vars

\* C12 witness: a byte that is no key has been read and processed during a
\* pause, and the watcher is back at its read.
C12_Witness ==
    /\ Running /\ wpc = "read" /\ ~readErr
    /\ buf = 120
    /\ isPaused /\ Len(toggles) = 1
    /\ tty = RawOf(ttyInit)

\* C14: the elapsed value of every tick is >= 0, and the accumulated paused
\* duration never exceeds the time since startTime.
C14_ElapsedNonNegative ==
    /\ elapsed >= 0
    /\ startTime # ZeroTime => pausedDuration <= now - startTime

\* C17: when makeRaw fails RunTimer reports the error and returns: no watcher,
\* no signal channel, cursor not hidden, nothing cleared or rendered, and the
\* terminal settings are those of the call.
C17_MakeRawFailure ==
    errorPrinted =>
        /\ mpc = "return" /\ defers = <<>>
        /\ wpc = "none" /\ ~notified
        /\ ~cursorHidden /\ screen = "shell" /\ frames = 0
        /\ tty = ttyInit /\ oldState = NilState

\* C17 witness: RunTimer has returned after a failed makeRaw.
C17_Witness ==
    errorPrinted /\ status = "returned" /\ tty = InitialTermios

\* The positions of the main goroutine inside the loop and on its way out.
LoopPcs == {"select", "tick", "since", "elapsed", "render", "banner", "return",
            "panic"}

\* C18: no step of the main loop (tick or signal handling) writes isPaused,
\* pauseStart, pausedDuration or startTime; the first three change in watcher
\* steps only, and startTime is not written after initialisation.
C18_MainLoopReadsOnly ==
    [][/\ (mpc \in LoopPcs /\ (mpc' # mpc \/ defers' # defers \/ status' # status))
            => UNCHANGED timerVars
       /\ <<isPaused, pauseStart, pausedDuration>>'
            # <<isPaused, pauseStart, pausedDuration>>
            => wpc \in {"toggle", "branch", "add"} /\ wpc' # wpc
       /\ startTime' # startTime => mpc = "init"]_vars

\* C18 witness: the loop has rendered a frame with its banner while the
\* watcher had accumulated a pause and begun another.
C18_Witness ==
    /\ mpc = "select" /\ frames > 0 /\ screen = "paused"
    /\ isPaused /\ pausedDuration > 0 /\ pauseStart > startTime

\* C20: of two successive ticks the later one never computes a smaller elapsed
\* value than the earlier one.
C20_ElapsedMonotonic ==
    [][(SampleStep /\ frames > 0) => elapsed' >= elapsed]_vars

\* ------------------------------------------- properties of the rendering

\* The fields of a timestamp: the stretches between its colons.
RECURSIVE FieldsOf(_)
FieldsOf(str) ==
    IF str = <<>> THEN << <<>> >>
    ELSE LET rest == FieldsOf(Tail(str))
         IN  IF Head(str) = ":" THEN << <<>> >> \o rest
             ELSE << <<Head(str)>> \o rest[1] >> \o Tail(rest)

\* The number a string of decimal digits denotes.
RECURSIVE NumberOf(_)
NumberOf(ds) ==
    IF ds = <<>> THEN 0
    ELSE 10 * NumberOf(SubSeq(ds, 1, Len(ds) - 1)) + DigitOf(ds[Len(ds)])

\* The position of the k-th line break of a text: 0 before the first line,
\* one past the end after the last.
BreakAt(text, k) ==
    LET brk == {i \in 1..Len(text) : text[i] = "\n"}
    IN  IF k = 0 THEN 0
        ELSE IF k > Cardinality(brk) THEN Len(text) + 1
        ELSE CHOOSE i \in brk : Cardinality({j \in brk : j < i}) = k - 1

\* The lines of a text: the stretches between its line breaks.
LinesOf(text) ==
    LET n == Cardinality({i \in 1..Len(text) : text[i] = "\n"}) + 1
    IN  [k \in 1..n |->
            SubSeq(text, BreakAt(text, k - 1) + 1, BreakAt(text, k) - 1)]

\* The width of a character's glyph: 5 columns for a digit, 1 for the colon.
WidthOf(ch) == IF ch = ":" THEN 1 ELSE 5

\* The column after which the glyph of character i of str starts, when every
\* earlier glyph takes its width and one more column.
RECURSIVE OffsetOf(_, _)
OffsetOf(str, i) ==
    IF i <= 1 THEN 0 ELSE OffsetOf(str, i - 1) + WidthOf(str[i - 1]) + 1

\* C13: for a non-negative elapsed time the tick's fields satisfy
\* 0 <= minutes < 60, 0 <= seconds < 60, hours not wrapped, and
\* hours*3600 + minutes*60 + seconds <= the whole seconds of the elapsed time.
C13_SplitWithinTotal ==
    (rpc \in {"format", "glyphs", "done"} /\ dur # NoDur) =>
        /\ hms[2] \in 0..59
        /\ hms[3] \in 0..59
        /\ hms[1] >= 0
        /\ hms[1] * 3600 + hms[2] * 60 + hms[3] <= dur.sec

\* C15: the timestamp is hours:minutes:seconds, each field the decimal number
\* of the tick's value, at least two digits wide, padded with a zero and never
\* truncated; 3661 s gives "01:01:01"; every digit gets a glyph.
C15_TimestampFormat ==
    rpc \in {"glyphs", "done"} =>
        LET f == FieldsOf(timeStr)
        IN  /\ Len(f) = 3
            /\ \A i \in 1..3 :
                  /\ Len(f[i]) >= 2
                  /\ NumberOf(f[i]) = hms[i]
                  /\ Len(f[i]) > 2 => f[i][1] # "0"
            /\ dur = [sec |-> 3661, nsec |-> 0]
                  => timeStr = <<"0", "1", ":", "0", "1", ":", "0", "1">>
            /\ rpc = "done"
                  => Len(LinesOf(out)[1]) = 6 * (Len(timeStr) - 2) + 2 * 2

\* C15 witness: a frame for 1000 hours less one second, 999:59:59.
C15_Witness ==
    /\ rpc = "done" /\ dur = [sec |-> 3599999, nsec |-> 0]
    /\ hms = <<999, 59, 59>>
    /\ Len(timeStr) = 9

\* C16: for a valid triple the output has exactly 5 lines of one length.
C16_FiveEqualLines ==
    (rpc = "done" /\ hms[1] >= 0 /\ hms[2] \in 0..59 /\ hms[3] \in 0..59) =>
        LET lines == LinesOf(out)
        IN  /\ Len(lines) = 5
            /\ \A i \in 1..5 : Len(lines[i]) = Len(lines[1])

\* C16 witness: getASCIITime has been called with (1234, 59, 48).
C16_Witness ==
    /\ rpc = "done" /\ dur = NoDur
    /\ hms = <<1234, 59, 48>>
    /\ Len(out) > 5

\* C19 as claimed: every row is as long as the glyph widths plus one space
\* column between neighbouring characters.
C19_RowsSeparated ==
    rpc = "done" =>
        \A row \in 1..5 :
            Len(LinesOf(out)[row])
                = OffsetOf(timeStr, Len(timeStr) + 1) - 1

\* C19: row r of the output holds, for every character of the timestamp in
\* order, row r of its glyph followed by one space column (also after the
\* last one), so a row is as long as the glyph widths plus the number of
\* characters; the 5 rows are joined with line breaks.
C19_RowsGlyphThenSpace ==
    rpc = "done" =>
        LET lines == LinesOf(out)
        IN  /\ Len(lines) = 5
            /\ \A row \in 1..5 :
                  /\ Len(lines[row]) = OffsetOf(timeStr, Len(timeStr) + 1)
                  /\ \A i \in 1..Len(timeStr) :
                        LET off == OffsetOf(timeStr, i)
                            w == WidthOf(timeStr[i])
                        IN  /\ SubSeq(lines[row], off + 1, off + w)
                                 = GlyphRow(timeStr[i], row)
                            /\ lines[row][off + w + 1] = " "

\* C19 witness: the frame of 07:09:05 has been built.
C19_Witness ==
    /\ rpc = "done" /\ hms = <<7, 9, 5>>
    /\ timeStr = <<"0", "7", ":", "0", "9", ":", "0", "5">>
    /\ Len(out) = 5 * 40 + 4

====
